---- MODULE Spec2Model ----
(***************************************************************************)
(* Semantic concept search of ai-tutor: EnhancedCourseSearch (native       *)
(* vector index, hybrid search), FallbackSearch (text search), the         *)
(* construction of the search engine by UnifiedAssistant, and the          *)
(* CachedSearch result cache.                                              *)
(*                                                                         *)
(* Reals are scaled: similarity, credibility and threshold are in tenths   *)
(* (0.5 is 5), a weighted score is their product, in hundredths.           *)
(***************************************************************************)
EXTENDS Integers, Sequences, FiniteSets, TLC

VARIABLES
    \* UnifiedAssistant / search engine object
    pc,                  \* "new" before UnifiedAssistant.__init__, "ready" after
    enhanced_search,     \* "none" | "EnhancedCourseSearch" | "FallbackSearch"
    use_enhanced_search, \* UnifiedAssistant.use_enhanced_search
    model,               \* "none" | "primary" | "backup"
    driver,              \* TRUE iff self.driver is not None
    has_vector_index,    \* EnhancedCourseSearch.has_vector_index
    max_workers,         \* EnhancedCourseSearch.max_workers
    load_log,            \* the model loads attempted, in order, and how each ended
    owner,               \* the constructor that ran: "none" | "UnifiedAssistant" | "EnhancedCourseSearch"
    init_raised,         \* TRUE iff UnifiedAssistant.__init__ raised
    store,               \* the Concept nodes of the graph, in store order
    call,                \* the last engine call: inputs, environment, outcome
    \* CachedSearch
    cache,               \* self.cache: key -> CachedSearchResult
    cache_ttl,
    max_cache_size,
    now,                 \* time.time()
    last,                \* the last CachedSearch operation: what it was given, what it
                         \* did (engine invocations, evictions) and what it returned
    threads              \* per calling thread: where it is inside CachedSearch.search
                         \* and the locals it holds

vars == <<pc, enhanced_search, use_enhanced_search, model, driver,
          has_vector_index, max_workers, load_log, owner, init_raised, store, call,
          cache, cache_ttl, max_cache_size, now, last, threads>>

engineVars == <<pc, enhanced_search, use_enhanced_search, model, driver,
                has_vector_index, max_workers, load_log, owner, init_raised, store>>

cacheVars == <<cache, cache_ttl, max_cache_size, now, last, threads>>

----------------------------------------------------------------------------
(* Generic helpers *)

Min(a, b) == IF a < b THEN a ELSE b

Max(a, b) == IF a > b THEN a ELSE b

\* Python's floor division a // b for a >= 0 and b # 0
FloorDiv(a, b) == IF b > 0 THEN a \div b ELSE 0 - ((a + (0 - b) - 1) \div (0 - b))

\* Python's seq[:n]
Slice(seq, n) ==
    IF n >= 0 THEN SubSeq(seq, 1, Min(n, Len(seq)))
              ELSE SubSeq(seq, 1, Max(Len(seq) + n, 0))

RECURSIVE Concat(_)
Concat(seqs) == IF seqs = <<>> THEN <<>> ELSE Head(seqs) \o Concat(Tail(seqs))

\* sorted(..., reverse=True) / list.sort(reverse=True) over [key, item] pairs:
\* descending by key, equal keys keep their input order.  rank[i] is the place
\* pair i takes: one more than the number of pairs that go before it
SortDesc(seq) ==
    LET n == Len(seq)
    IN  IF n <= 1 THEN seq
        ELSE LET rank == CHOOSE r \in {[i \in 1..n |->
                             1 + Cardinality({j \in 1..n :
                                     \/ seq[j].key > seq[i].key
                                     \/ (seq[j].key = seq[i].key /\ j < i)})] \o <<>>} : TRUE
             IN  [p \in 1..n |-> seq[CHOOSE i \in 1..n : rank[i] = p]]

Items(pairs) == [i \in 1..Len(pairs) |-> pairs[i].item]

\* outcome of a call: a returned value or a propagated exception
Ok(v) == [raised |-> FALSE, value |-> v]

Raise == [raised |-> TRUE, value |-> <<>>]

----------------------------------------------------------------------------
(* The concept store (Neo4j) and the inputs of a search *)

Q1 == "systems thinking"

Q2 == "why is it"

Q3 == "Feedback loop"

Queries == {"", Q1, Q2, Q3}

\* a query argument that is not a str (None, a number, a list)
NonStringQuery == "<not a str>"

\* the query arguments given to EnhancedCourseSearch
EngineQueries == Queries \cup {NonStringQuery}

\* str.split() of the queries above
Split(query) ==
    CASE query = Q1 -> <<"systems", "thinking">>
      [] query = Q2 -> <<"why", "is", "it">>
      [] query = Q3 -> <<"Feedback", "loop">>
      [] OTHER -> <<>>

\* Cypher toLower() on the terms above
toLower(term) == IF term = "Feedback" THEN "feedback" ELSE term

\* a Concept node.  contains: the lower-cased terms that occur in toLower(name)
\* or toLower(definition); text: "{title} {content} {example}".strip() is not
\* empty; cred: <<>> when n.credibility_score is null; sim[q]: cosine of the
\* query embedding and the embedding of the concept's text; score[q]: the
\* score the vector index yields for the concept; indexed: the node carries
\* the indexed embedding property.
Concept(title, contains, text, source_type, cred, sim, score, indexed) ==
    [title |-> title, contains |-> contains, text |-> text,
     source_type |-> source_type, cred |-> cred,
     sim |-> [q \in {Q1, Q2, Q3} |-> sim[IF q = Q1 THEN 1 ELSE IF q = Q2 THEN 2 ELSE 3]],
     score |-> [q \in {Q1, Q2, Q3} |-> score[IF q = Q1 THEN 1 ELSE IF q = Q2 THEN 2 ELSE 3]],
     indexed |-> indexed]

StoreA ==
    << Concept("system", {"systems", "thinking"}, TRUE, "official", <<10>>,
               <<9, 5, 2>>, <<9, 7, 6>>, TRUE),
       Concept("feedback", {"feedback", "loop"}, TRUE, "teacher", <<5>>,
               <<6, 10, 9>>, <<8, 10, 9>>, TRUE),
       Concept("goal", {}, TRUE, "student", <<>>,
               <<3, 5, 6>>, <<6, 7, 8>>, TRUE) >>

StoreB ==
    << Concept("role", {"thinking"}, TRUE, "official", <<10>>,
               <<7, 4, 0>>, <<8, 7, 5>>, TRUE),
       Concept("boundary", {}, TRUE, "student", <<3>>,
               <<10, 6, 5>>, <<10, 8, 7>>, TRUE),
       Concept("", {}, FALSE, "official", <<>>,
               <<0, 0, 0>>, <<5, 5, 5>>, FALSE),
       Concept("emergence", {"systems"}, TRUE, "teacher", <<8>>,
               <<5, 5, 5>>, <<7, 7, 7>>, TRUE),
       Concept("stock", {"loop"}, TRUE, "official", <<>>,
               <<4, 8, 7>>, <<7, 9, 8>>, FALSE),
       Concept("flow", {"feedback"}, TRUE, "teacher", <<12>>,
               <<6, 3, 8>>, <<8, 6, 9>>, TRUE),
       Concept("delay", {"systems", "loop"}, TRUE, "student", <<5>>,
               <<8, 5, 10>>, <<9, 7, 10>>, TRUE) >>

Stores == {<<>>, StoreA, StoreB}

\* source_types: None, or a list
NoSourceTypes == [isNone |-> TRUE, items |-> <<>>]

SourceTypes(items) == [isNone |-> FALSE, items |-> items]

SourceTypeArgs == {NoSourceTypes, SourceTypes(<<>>), SourceTypes(<<"official", "teacher">>)}

\* Python truth value of `source_types and len(source_types) > 0`
HasSourceTypes(source_types) == ~source_types.isNone /\ Len(source_types.items) > 0

InSourceTypes(c, source_types) ==
    \E i \in 1..Len(source_types.items) : source_types.items[i] = c.source_type

Limits == {-1, 0, 1, 2, 5, 40}

Thresholds == {-1, 3, 5, 8, 12}

\* what can go wrong during one call: encoderFail: model.encode raises on the
\* query; indexFail: the vector index query raises; storeFail: the candidate
\* query raises (store unreachable); poolFail: the thread pool raises;
\* bad: titles of the concepts whose text cannot be encoded
AllEnvs ==
    [encoderFail : BOOLEAN, indexFail : BOOLEAN, storeFail : BOOLEAN,
     poolFail : BOOLEAN, bad : {{}, {"feedback", "emergence"}}]

\* the environments that differ in what the call observes: once the encoder
\* has failed nothing else is reached, and once the candidate query has failed
\* neither the thread pool nor the document encoder is reached
Envs ==
    {e \in AllEnvs :
        /\ e.encoderFail => (~e.indexFail /\ ~e.storeFail /\ ~e.poolFail /\ e.bad = {})
        /\ e.storeFail => (~e.poolFail /\ e.bad = {})}

NoFailure ==
    [encoderFail |-> FALSE, indexFail |-> FALSE, storeFail |-> FALSE,
     poolFail |-> FALSE, bad |-> {}]

----------------------------------------------------------------------------
(* Cypher: a query is modelled by the sequence of its clause keywords *)

\* a predicate introduced by AND must follow a WHERE predicate, and a WHERE
\* cannot directly follow another WHERE
CypherWellFormed(q) ==
    \A i \in 1..Len(q) :
        /\ q[i] = "AND" => (i > 1 /\ q[i-1] \in {"WHERE", "AND"})
        /\ q[i] = "WHERE" => (i > 1 /\ q[i-1] # "WHERE")

coalesce(cred) == IF cred = <<>> THEN 10 ELSE cred[1]

\* a record whose weighted_score leaves the credibility out
Result_Unweighted(c, similarity) ==
    [title |-> c.title, source_type |-> c.source_type,
     similarity |-> similarity,
     credibility_score |-> coalesce(c.cred),
     weighted_score |-> similarity]

\* the dict appended to results
Result(c, similarity) ==
    [title |-> c.title, source_type |-> c.source_type,
     similarity |-> similarity,
     credibility_score |-> coalesce(c.cred),
     weighted_score |-> similarity * coalesce(c.cred)]

----------------------------------------------------------------------------
(* FallbackSearch *)

\* search_terms[:5] restricted to len(term) > 3
SearchTerms(query) ==
    LET terms == Slice(Split(query), 5)
    IN  SelectSeq(terms, LAMBDA t : Len(t) > 3)

FallbackCypher(source_types) ==
    <<"MATCH", "WHERE">>
        \o (IF HasSourceTypes(source_types) THEN <<"AND">> ELSE <<>>)
        \o <<"RETURN", "LIMIT">>

\* a WHERE clause whose term condition is always "1=1"
FallbackMatches_AnyConcept(c, query, source_types) ==
    HasSourceTypes(source_types) => InSourceTypes(c, source_types)

\* WHERE (where_condition) source_filter
FallbackMatches(c, query, source_types) ==
    LET terms == SearchTerms(query)
    IN  /\ \/ terms = <<>>                                   \* "1=1"
           \/ \E i \in 1..Len(terms) : toLower(terms[i]) \in c.contains
        /\ HasSourceTypes(source_types) => InSourceTypes(c, source_types)

FallbackSearch_semantic_search_with_ranking(query, limit, threshold, source_types, env) ==
    IF ~driver THEN Ok(<<>>)
    ELSE IF env.storeFail \/ ~CypherWellFormed(FallbackCypher(source_types)) \/ limit < 0
         THEN Ok(<<>>)                                       \* except Exception
         ELSE LET rows == SelectSeq(store, LAMBDA c : FallbackMatches(c, query, source_types))
                  page == Slice(rows, limit)                 \* LIMIT {limit}
              IN  Ok([i \in 1..Len(page) |-> Result(page[i], 7)])

----------------------------------------------------------------------------
(* EnhancedCourseSearch: hybrid search *)

max_batch_size == 5

max_records == 100

\* model.encode(texts) raises when one of the texts cannot be encoded
EncodeBatchRaises(items, env) == \E i \in 1..Len(items) : items[i].title \in env.bad

\* a small batch that appends every scored item, whatever its similarity
_process_small_batch_NoThreshold(items, query, threshold, results, env) ==
    IF EncodeBatchRaises(items, env) THEN results
    ELSE results \o [i \in 1..Len(items) |-> Result(items[i], items[i].sim[query])]

\* a small batch that compares the threshold with the weighted score
_process_small_batch_WeightedThreshold(items, query, threshold, results, env) ==
    IF EncodeBatchRaises(items, env) THEN results
    ELSE LET passed == SelectSeq(items,
                           LAMBDA c : c.sim[query] * coalesce(c.cred) >= threshold * 10)
         IN  results \o [i \in 1..Len(passed) |-> Result(passed[i], passed[i].sim[query])]

_process_small_batch(items, query, threshold, results, env) ==
    IF EncodeBatchRaises(items, env) THEN results            \* except: logged
    ELSE LET passed == SelectSeq(items, LAMBDA c : c.sim[query] >= threshold)
         IN  results \o [i \in 1..Len(passed) |-> Result(passed[i], passed[i].sim[query])]

\* the body of the loop of _process_batch for one record.  st.items: the
\* pending texts / batch_items; st.results: the results so far; st.subs: the
\* sub-batches handed to _process_small_batch so far
ProcessRecord(st, record, query, threshold, env) ==
    IF ~record.text THEN st
    ELSE IF Len(st.items) + 1 >= max_batch_size
         THEN [items |-> <<>>,
               results |-> _process_small_batch(Append(st.items, record), query,
                                                threshold, st.results, env),
               subs |-> Append(st.subs, Append(st.items, record))]
         ELSE [st EXCEPT !.items = Append(st.items, record)]

RECURSIVE ProcessRecords(_, _, _, _, _, _, _)
\* the loop of _process_batch over the records lo..hi in order, started in
\* state st.  The range is split in two, and `half`, the state after the
\* first half, is a computed value before the second half starts: this keeps
\* the evaluation shallow for a batch of a hundred records.
ProcessRecords(batch, lo, hi, st, query, threshold, env) ==
    IF lo > hi THEN st
    ELSE IF lo = hi THEN ProcessRecord(st, batch[lo], query, threshold, env)
    ELSE CHOOSE after \in
             {ProcessRecords(batch, (lo + hi) \div 2 + 1, hi, half,
                             query, threshold, env) :
                  half \in {ProcessRecords(batch, lo, (lo + hi) \div 2, st,
                                           query, threshold, env)}} : TRUE

\* _process_batch: the loop, then the remaining items
ProcessBatchLoop(batch, query, threshold, env) ==
    LET st == ProcessRecords(batch, 1, Len(batch),
                             [items |-> <<>>, results |-> <<>>, subs |-> <<>>],
                             query, threshold, env)
    IN  IF st.items # <<>>
        THEN [results |-> _process_small_batch(st.items, query, threshold,
                                               st.results, env),
              subs |-> Append(st.subs, st.items)]
        ELSE [results |-> st.results, subs |-> st.subs]

_process_batch(batch, query, threshold, env) ==
    ProcessBatchLoop(batch, query, threshold, env).results

\* the sub-batches _process_batch forms from a batch
SubBatches(batch) == ProcessBatchLoop(batch, Q1, 0, NoFailure).subs

HybridCypher(source_types) ==
    <<"MATCH">>
        \o (IF HasSourceTypes(source_types) THEN <<"AND">> ELSE <<>>)
        \o <<"RETURN", "LIMIT">>

\* the records the candidate query returns
AllRecords(source_types) ==
    LET rows == IF HasSourceTypes(source_types)
                THEN SelectSeq(store, LAMBDA c : InSourceTypes(c, source_types))
                ELSE store
    IN  Slice(rows, max_records)

\* a split that counts only the full batches
Batches_FullOnly(all_records) ==
    LET batch_size == Max(5, FloorDiv(Len(all_records), max_workers))
        n == Len(all_records) \div batch_size
    IN  [b \in 1..n |-> SubSeq(all_records, (b - 1) * batch_size + 1,
                               Min(b * batch_size, Len(all_records)))]

Batches(all_records) ==
    LET batch_size == Max(5, FloorDiv(Len(all_records), max_workers))
        n == (Len(all_records) + batch_size - 1) \div batch_size
    IN  [b \in 1..n |-> SubSeq(all_records, (b - 1) * batch_size + 1,
                               Min(b * batch_size, Len(all_records)))]

\* a single-threaded loop that appends every scored record
SequentialScan_NoThreshold(all_records, query, threshold, env) ==
    LET scored == SelectSeq(all_records, LAMBDA c : c.text /\ c.title \notin env.bad)
    IN  [i \in 1..Len(scored) |-> Result(scored[i], scored[i].sim[query])]

\* the single-threaded loop entered when the thread pool raised
SequentialScan(all_records, query, threshold, env) ==
    LET scored == SelectSeq(all_records,
                      LAMBDA c : c.text /\ c.title \notin env.bad /\ c.sim[query] >= threshold)
    IN  [i \in 1..Len(scored) |-> Result(scored[i], scored[i].sim[query])]

\* truncation without the sort
RankAndLimit_NoSort(results, limit) == Slice(results, limit)

\* a descending sort that puts the later of two equal results first
RankAndLimit_TiesReversed(results, limit) ==
    Slice(Items(SortDesc([i \in 1..Len(results) |->
                            [key |-> results[i].weighted_score * 1000 + i,
                             item |-> results[i]]])),
          limit)

\* results.sort(key=weighted_score, reverse=True); results[:limit]
RankAndLimit(results, limit) ==
    Slice(Items(SortDesc([i \in 1..Len(results) |->
                            [key |-> results[i].weighted_score, item |-> results[i]]])),
          limit)

\* a hybrid search whose sequential loop adds to what the batches of the
\* aborted parallel attempt had produced
HybridBody_KeepsPartial(query, limit, threshold, source_types, env) ==
    IF ~driver \/ env.storeFail \/ ~CypherWellFormed(HybridCypher(source_types))
    THEN Raise
    ELSE LET all_records == AllRecords(source_types)
         IN  IF all_records = <<>> THEN Ok(<<>>)
             ELSE IF max_workers = 0 THEN Raise
             ELSE LET batches == Batches(all_records)
                      poolRaises == Min(max_workers, Len(batches)) <= 0 \/ env.poolFail
                      parallel == Concat([b \in 1..Len(batches) |->
                                            _process_batch(batches[b], query, threshold, env)])
                      results ==
                          IF poolRaises
                          THEN parallel \o SequentialScan(all_records, query, threshold, env)
                          ELSE parallel
                  IN  Ok(RankAndLimit(results, limit))

\* the body of _search_hybrid inside its outer try
HybridBody(query, limit, threshold, source_types, env) ==
    IF ~driver \/ env.storeFail \/ ~CypherWellFormed(HybridCypher(source_types))
    THEN Raise
    ELSE LET all_records == AllRecords(source_types)
         IN  IF all_records = <<>> THEN Ok(<<>>)
             ELSE IF max_workers = 0 THEN Raise               \* ZeroDivisionError
             ELSE LET batches == Batches(all_records)
                      poolRaises == Min(max_workers, Len(batches)) <= 0 \/ env.poolFail
                      results ==
                          IF poolRaises
                          THEN SequentialScan(all_records, query, threshold, env)
                          ELSE Concat([b \in 1..Len(batches) |->
                                         _process_batch(batches[b], query, threshold, env)])
                  IN  Ok(RankAndLimit(results, limit))

_search_hybrid(query, limit, threshold, source_types, env) ==
    LET body == HybridBody(query, limit, threshold, source_types, env)
    IN  IF body.raised THEN Ok(<<>>) ELSE body

----------------------------------------------------------------------------
(* EnhancedCourseSearch: native vector index *)

NativeCypher(source_types) ==
    <<"CALL", "YIELD", "WITH", "WHERE">>
        \o (IF HasSourceTypes(source_types) THEN <<"WHERE">> ELSE <<>>)
        \o <<"RETURN", "ORDER BY", "LIMIT">>

\* db.index.vector.queryNodes(index, k, embedding): the k indexed nodes with
\* the highest score
QueryNodes(query, k) ==
    LET indexed == SelectSeq(store, LAMBDA c : c.indexed)
    IN  Slice(Items(SortDesc([i \in 1..Len(indexed) |->
                                [key |-> indexed[i].score[query], item |-> indexed[i]]])),
              k)

\* an index search that requests only as many candidates as it returns
NativeK_NoOverfetch(limit) == limit

\* k = min(limit * 3, 100): the number of candidates requested from the index
NativeK(limit) == Min(limit * 3, 100)

NativeRows(query, limit, threshold, source_types) ==
    LET k == NativeK(limit)
        nodes == QueryNodes(query, k)
        kept == SelectSeq(nodes,
                    LAMBDA c : /\ c.score[query] >= threshold
                               /\ HasSourceTypes(source_types) => InSourceTypes(c, source_types))
        ordered == Items(SortDesc([i \in 1..Len(kept) |->
                            [key |-> kept[i].score[query] * coalesce(kept[i].cred),
                             item |-> kept[i]]]))
        page == Slice(ordered, limit)
    IN  [i \in 1..Len(page) |-> Result(page[i], page[i].score[query])]

\* the body of _search_with_vector_index inside its try
NativeBody(query, limit, threshold, source_types, env) ==
    IF ~driver \/ env.indexFail \/ ~CypherWellFormed(NativeCypher(source_types)) \/ limit < 0
    THEN Raise
    ELSE Ok(NativeRows(query, limit, threshold, source_types))

\* an index search that answers a failed index query with the empty list
_search_with_vector_index_NoFallback(query, limit, threshold, source_types, env) ==
    LET body == NativeBody(query, limit, threshold, source_types, env)
    IN  IF body.raised THEN Ok(<<>>) ELSE body

_search_with_vector_index(query, limit, threshold, source_types, env) ==
    LET body == NativeBody(query, limit, threshold, source_types, env)
    IN  IF body.raised
        THEN _search_hybrid(query, limit, threshold, source_types, env)
        ELSE body

----------------------------------------------------------------------------
(* EnhancedCourseSearch.semantic_search_with_ranking *)

\* a threshold pulled to the nearest bound of [0, 1]
EffectiveThreshold_Clamp(threshold) ==
    IF threshold < 0 THEN 0 ELSE IF threshold > 10 THEN 10 ELSE threshold

\* `if not query or not isinstance(query, str)`
InvalidQuery(query) == query = "" \/ query = NonStringQuery

\* `if threshold < 0 or threshold > 1: threshold = 0.5`
EffectiveThreshold(threshold) == IF threshold < 0 \/ threshold > 10 THEN 5 ELSE threshold

\* the try block: encode the query, then search
SearchBody(query, limit, threshold, source_types, env) ==
    IF model = "none" \/ env.encoderFail THEN Raise
    ELSE IF has_vector_index
         THEN _search_with_vector_index(query, limit, threshold, source_types, env)
         ELSE _search_hybrid(query, limit, threshold, source_types, env)

\* a search without the try/except around its body
semantic_search_with_ranking_NoTry(query, limit, threshold, source_types, env) ==
    IF InvalidQuery(query) THEN Ok(<<>>)
    ELSE SearchBody(query, limit, EffectiveThreshold(threshold), source_types, env)

semantic_search_with_ranking(query, limit, threshold, source_types, env) ==
    IF InvalidQuery(query) THEN Ok(<<>>)
    ELSE LET body == SearchBody(query, limit, EffectiveThreshold(threshold), source_types, env)
         IN  IF body.raised THEN Ok(<<>>) ELSE body

\* which code path produced the result of a call
SearchPath(query, limit, threshold, source_types, env) ==
    IF InvalidQuery(query) THEN "invalid"
    ELSE IF model = "none" \/ env.encoderFail THEN "error"
    ELSE IF ~has_vector_index THEN "hybrid"
    ELSE IF NativeBody(query, limit, EffectiveThreshold(threshold), source_types, env).raised
         THEN "native-failed"
         ELSE "native"

----------------------------------------------------------------------------
(* Construction *)

\* how loading the primary model ends: it loads, `import torch` /
\* torch.set_num_threads raises, or SentenceTransformer(model_name) raises
PrimaryOutcomes == {"ok", "torch_error", "load_error"}

MaxWorkersArgs == {-1, 0, 1, 4}

\* EnhancedCourseSearch.__init__: st_imported is FALSE when the module-level
\* import left SentenceTransformer = None
EnhancedCourseSearch_init(workers_arg, driver_ok, st_imported, primary, backup_ok, index_present) ==
    LET primary_loaded == st_imported /\ primary = "ok"
        \* `device` is bound only if the primary attempt got past `import torch`
        backup_loaded == ~primary_loaded /\ st_imported /\ primary = "load_error" /\ backup_ok
        loaded == primary_loaded \/ backup_loaded
    IN  [raised |-> ~loaded,
         kind |-> "EnhancedCourseSearch",
         driver |-> driver_ok,
         model |-> IF primary_loaded THEN "primary"
                   ELSE IF backup_loaded THEN "backup" ELSE "none",
         max_workers |-> Min(workers_arg, 1),
         has_vector_index |-> loaded /\ driver_ok /\ index_present,
         load_log |-> IF primary_loaded
                      THEN <<[name |-> "primary", loaded |-> TRUE]>>
                      ELSE <<[name |-> "primary", loaded |-> FALSE],
                             [name |-> "backup", loaded |-> backup_loaded]>>]

FallbackSearch_init(driver_ok) ==
    [raised |-> FALSE,
     kind |-> "FallbackSearch",
     driver |-> driver_ok,
     model |-> "none",
     max_workers |-> 1,
     has_vector_index |-> FALSE,
     load_log |-> <<>>]

\* a constructor that catches ImportError and ValueError only, so that the
\* RuntimeError of EnhancedCourseSearch gets out
UnifiedAssistant_init_Uncaught(st_available, driver_ok, primary, backup_ok, index_present) ==
    IF ~st_available
    THEN [search |-> FallbackSearch_init(driver_ok), use |-> FALSE, raised |-> FALSE]
    ELSE LET eng == EnhancedCourseSearch_init(1, driver_ok, st_available, primary,
                                              backup_ok, index_present)
         IN  IF eng.raised
             THEN [search |-> eng, use |-> FALSE, raised |-> TRUE]
             ELSE [search |-> eng, use |-> TRUE, raised |-> FALSE]

\* UnifiedAssistant.__init__: the search object it ends with, use_enhanced_search,
\* and whether the constructor raised
UnifiedAssistant_init(st_available, driver_ok, primary, backup_ok, index_present) ==
    IF ~st_available
    THEN [search |-> FallbackSearch_init(driver_ok), use |-> FALSE, raised |-> FALSE]
    ELSE LET eng == EnhancedCourseSearch_init(1, driver_ok, st_available, primary,
                                              backup_ok, index_present)
             fb == FallbackSearch_init(driver_ok)
         IN  IF eng.raised                                   \* except Exception
             THEN [search |-> [fb EXCEPT !.load_log = eng.load_log],
                   use |-> FALSE, raised |-> fb.raised]
             ELSE IF eng.model # "none"
                  THEN [search |-> eng, use |-> TRUE, raised |-> FALSE]
                  ELSE [search |-> [fb EXCEPT !.load_log = eng.load_log],
                        use |-> FALSE, raised |-> fb.raised]

\* invoked: the search methods the call invoked, in order
NoCall ==
    [op |-> "none", query |-> "", limit |-> 0, threshold |-> 0,
     source_types |-> NoSourceTypes, env |-> NoFailure, path |-> "none",
     invoked |-> <<>>, raised |-> FALSE, result |-> <<>>]

\* what get_cache_stats returns for an empty cache
NoStats ==
    [total_entries |-> 0, valid_entries |-> 0, expired_entries |-> 0,
     oldest_entry_age |-> 0, newest_entry_age |-> 0]

\* how: the branch of CachedSearch.search the call took, as its log line
\* tells; calls: the number of times the call invoked the engine; evicted: the
\* number of entries the call removed; dropped: the timestamps of the entries
\* its cleanup removed; done: the time it returned; stats: the dict
\* get_cache_stats returned
NoLast ==
    [op |-> "none", key |-> <<>>, use_cache |-> FALSE, how |-> "none", calls |-> 0,
     evicted |-> 0, dropped |-> <<>>, done |-> 0, raised |-> FALSE, result |-> <<>>,
     stats |-> NoStats]

\* the threads that call one CachedSearch instance
Threads == {1, 2}

\* pc: the statement of CachedSearch.search the thread is about to execute
\* ("idle" outside a call); key: its cache_key; items: its cache_items;
\* raised: the call ended with an exception
IdleThread == [pc |-> "idle", key |-> <<>>, items |-> <<>>, raised |-> FALSE]

NoThreads == [t \in Threads |-> IdleThread]

\* the search object is installed in the state
Install(obj) ==
    /\ enhanced_search' = obj.kind
    /\ model' = obj.model
    /\ driver' = obj.driver
    /\ has_vector_index' = obj.has_vector_index
    /\ max_workers' = obj.max_workers
    /\ load_log' = obj.load_log

\* assistant = UnifiedAssistant(neo4j_client, openrouter_client)
ConstructAssistant ==
    /\ pc = "new"
    /\ \E st_available \in BOOLEAN, driver_ok \in BOOLEAN, primary \in PrimaryOutcomes,
          backup_ok \in BOOLEAN, index_present \in BOOLEAN :
          LET a == UnifiedAssistant_init(st_available, driver_ok, primary, backup_ok, index_present)
          IN  /\ Install(a.search)
              /\ use_enhanced_search' = a.use
              /\ owner' = "UnifiedAssistant"
              /\ init_raised' = a.raised
              /\ pc' = IF a.raised THEN "failed" ELSE "ready"
    /\ UNCHANGED <<store, call>>
    /\ UNCHANGED cacheVars

\* search_engine = EnhancedCourseSearch(max_workers=...), as the benchmark
\* scripts construct it
ConstructEngine ==
    /\ pc = "new"
    /\ \E workers_arg \in MaxWorkersArgs, driver_ok \in BOOLEAN, primary \in PrimaryOutcomes,
          backup_ok \in BOOLEAN, index_present \in BOOLEAN :
          LET e == EnhancedCourseSearch_init(workers_arg, driver_ok, TRUE, primary,
                                             backup_ok, index_present)
          IN  /\ IF e.raised
                 THEN /\ UNCHANGED <<enhanced_search, model, driver, has_vector_index, max_workers>>
                      /\ load_log' = e.load_log
                 ELSE Install(e)
              /\ init_raised' = e.raised
              /\ owner' = "EnhancedCourseSearch"
              /\ pc' = IF e.raised THEN "failed" ELSE "ready"
    /\ UNCHANGED <<use_enhanced_search, store, call>>
    /\ UNCHANGED cacheVars

----------------------------------------------------------------------------
(* Calls of the search engine *)

\* a search that gives up the vector index once its query has failed
has_vector_index_after_GivesUp(path) == has_vector_index /\ path # "native-failed"

\* the flag after a search: no path of semantic_search_with_ranking assigns it
has_vector_index_after(path) == has_vector_index

\* enhanced_search.semantic_search_with_ranking(query, limit, threshold, source_types)
EnhancedSearch ==
    /\ pc = "ready"
    /\ enhanced_search = "EnhancedCourseSearch"
    /\ \E query \in EngineQueries, limit \in Limits, threshold \in Thresholds,
          source_types \in SourceTypeArgs, env \in Envs :
          \E out \in {semantic_search_with_ranking(query, limit, threshold, source_types, env)} :
              call' = [op |-> "enhanced", query |-> query, limit |-> limit,
                       threshold |-> threshold, source_types |-> source_types,
                       env |-> env,
                       path |-> SearchPath(query, limit, threshold, source_types, env),
                       invoked |-> <<"EnhancedCourseSearch.semantic_search_with_ranking">>,
                       raised |-> out.raised, result |-> out.value]
    /\ pc' = "returned"
    /\ has_vector_index' = has_vector_index_after(call'.path)
    /\ UNCHANGED <<enhanced_search, use_enhanced_search, model, driver,
                   max_workers, load_log, owner, init_raised, store>>
    /\ UNCHANGED cacheVars

\* the same call when the search object is a FallbackSearch
FallbackSearchCall ==
    /\ pc = "ready"
    /\ enhanced_search = "FallbackSearch"
    /\ \E query \in Queries, limit \in Limits, threshold \in Thresholds,
          source_types \in SourceTypeArgs, storeFail \in BOOLEAN :
          LET env == [NoFailure EXCEPT !.storeFail = storeFail]
              out == FallbackSearch_semantic_search_with_ranking(
                         query, limit, threshold, source_types, env)
          IN  call' = [op |-> "fallback", query |-> query, limit |-> limit,
                       threshold |-> threshold, source_types |-> source_types,
                       env |-> env, path |-> "text",
                       invoked |-> <<"FallbackSearch.semantic_search_with_ranking">>,
                       raised |-> out.raised, result |-> out.value]
    /\ pc' = "returned"
    /\ UNCHANGED <<enhanced_search, use_enhanced_search, model, driver,
                   has_vector_index, max_workers, load_log, owner, init_raised, store>>
    /\ UNCHANGED cacheVars

\* neo4j_client.semantic_search(query, limit, min_similarity): Neo4jClient
\* defines no method of that name, the attribute lookup raises AttributeError
Neo4jClient_semantic_search(query, limit, min_similarity) == Raise

\* UnifiedAssistant._fallback_standard_search: the outcome and the methods invoked
_fallback_standard_search(query, limit, threshold) ==
    LET results == Neo4jClient_semantic_search(query, limit, threshold)
    IN  [out |-> IF results.raised THEN Ok(<<>>) ELSE results,       \* except Exception
         invoked |-> <<"Neo4jClient.semantic_search">>]

\* UnifiedAssistant._enhanced_semantic_search: the outcome and the methods invoked
_enhanced_semantic_search(query, limit, threshold, env) ==
    IF use_enhanced_search /\ enhanced_search # "none"
    THEN LET results == semantic_search_with_ranking(query, limit, threshold, NoSourceTypes, env)
             std == _fallback_standard_search(query, limit, threshold)
         IN  IF results.raised \/ results.value = <<>>                \* except / `if not results`
             THEN [out |-> std.out,
                   invoked |-> <<"EnhancedCourseSearch.semantic_search_with_ranking">>
                                   \o std.invoked]
             ELSE [out |-> results,
                   invoked |-> <<"EnhancedCourseSearch.semantic_search_with_ranking">>]
    ELSE _fallback_standard_search(query, limit, threshold)

\* await assistant._enhanced_semantic_search(query, limit, threshold)
AssistantSearch ==
    /\ pc = "ready"
    /\ owner = "UnifiedAssistant"
    /\ \E query \in Queries, limit \in Limits, threshold \in Thresholds, env \in Envs :
          \E r \in {_enhanced_semantic_search(query, limit, threshold, env)} :
              call' = [op |-> "assistant", query |-> query, limit |-> limit,
                       threshold |-> threshold, source_types |-> NoSourceTypes,
                       env |-> env,
                       path |-> IF use_enhanced_search THEN "enhanced" ELSE "standard",
                       invoked |-> r.invoked,
                       raised |-> r.out.raised, result |-> r.out.value]
    /\ pc' = "returned"
    /\ UNCHANGED <<enhanced_search, use_enhanced_search, model, driver,
                   has_vector_index, max_workers, load_log, owner, init_raised, store>>
    /\ UNCHANGED cacheVars

\* the caller has taken the result
Return ==
    /\ pc = "returned"
    /\ pc' = "ready"
    /\ call' = NoCall
    /\ UNCHANGED <<enhanced_search, use_enhanced_search, model, driver,
                   has_vector_index, max_workers, load_log, owner, init_raised, store>>
    /\ UNCHANGED cacheVars

InitEngine ==
    /\ pc = "new"
    /\ enhanced_search = "none"
    /\ use_enhanced_search = FALSE
    /\ model = "none"
    /\ driver = FALSE
    /\ has_vector_index = FALSE
    /\ max_workers = 1
    /\ load_log = <<>>
    /\ owner = "none"
    /\ init_raised = FALSE
    /\ store \in Stores
    /\ call = NoCall
    /\ cache = <<>>
    /\ cache_ttl = 0
    /\ max_cache_size = 0
    /\ now = 0
    /\ last = NoLast
    /\ threads = NoThreads

NextEngine ==
    \/ ConstructAssistant
    \/ ConstructEngine
    \/ EnhancedSearch
    \/ FallbackSearchCall
    \/ AssistantSearch
    \/ Return

SpecEngine == InitEngine /\ [][NextEngine]_vars

----------------------------------------------------------------------------
(* Properties of the search engine *)

IsEngineCall == pc = "returned" /\ call.op \in {"enhanced", "fallback"}

\* the stored concept a result record was built from (names are unique)
ConceptOf(r) == CHOOSE c \in {store[i] : i \in 1..Len(store)} : c.title = r.title

\* C5: every list semantic_search_with_ranking of EnhancedCourseSearch returns
\* for a limit >= 0, from the native index or from hybrid search, has at most
\* limit elements and a weighted_score that never increases from one element
\* to the next.
C5_SortedAndLimited ==
    (pc = "returned" /\ call.op = "enhanced" /\ call.limit >= 0) =>
        /\ Len(call.result) <= call.limit
        /\ \A i \in 1..(Len(call.result) - 1) :
               call.result[i].weighted_score >= call.result[i+1].weighted_score

\* hybrid search returned as many results as the limit allows, and ranked a
\* result of lower similarity first because of its weighted score
C5_Witness ==
    /\ pc = "returned" /\ call.op = "enhanced" /\ call.path = "hybrid"
    /\ call.limit >= 2 /\ Len(call.result) = call.limit
    /\ call.result[1].weighted_score > call.result[2].weighted_score
    /\ call.result[1].similarity < call.result[2].similarity

\* C6: in every result record of the three search modes weighted_score is
\* similarity times credibility_score, and credibility_score is the value
\* stored with the concept, or 1.0 when the concept stores none.
C6_WeightedScore ==
    IsEngineCall =>
        \A i \in 1..Len(call.result) :
            LET r == call.result[i]
                stored == ConceptOf(r).cred
            IN  /\ r.weighted_score = r.similarity * r.credibility_score
                /\ r.credibility_score = IF stored = <<>> THEN 10 ELSE stored[1]

\* a text-search result of a concept whose credibility is 0.5 and one of a
\* concept that stores no credibility
C6_Witness ==
    /\ pc = "returned" /\ call.op = "fallback"
    /\ \E i, j \in 1..Len(call.result) :
          /\ call.result[i].credibility_score = 5
          /\ call.result[i].weighted_score = 35
          /\ ConceptOf(call.result[j]).cred = <<>>
          /\ call.result[j].weighted_score = 70

\* C7 as stated: every result of every search mode, the text search included,
\* has a similarity of at least the threshold the caller passed.
C7_Original ==
    IsEngineCall =>
        \A i \in 1..Len(call.result) : call.result[i].similarity >= call.threshold

\* C7 amended: every result of EnhancedCourseSearch has a similarity of at
\* least the threshold in effect, which is the threshold passed when that lies
\* in [0, 1] and 0.5 otherwise; every result of FallbackSearch has the fixed
\* similarity 0.7 whatever the threshold passed.
C7_Amended ==
    /\ (pc = "returned" /\ call.op = "enhanced") =>
           \A i \in 1..Len(call.result) :
               call.result[i].similarity >=
                   (IF call.threshold < 0 \/ call.threshold > 10 THEN 5 ELSE call.threshold)
    /\ (pc = "returned" /\ call.op = "fallback") =>
           \A i \in 1..Len(call.result) : call.result[i].similarity = 7

\* the text search answered a call whose threshold is 0.8
C7_Witness ==
    /\ pc = "returned" /\ call.op = "fallback"
    /\ call.threshold = 8
    /\ call.result # <<>>

\* the store is unreachable for a call: there is no driver, or the queries the
\* call issues fail
StoreUnreachable ==
    \/ ~driver
    \/ call.env.storeFail /\ (has_vector_index => call.env.indexFail)

\* C8: semantic_search_with_ranking of EnhancedCourseSearch never lets an
\* exception reach its caller, whatever fails during the call, and it returns
\* the empty list when the store is unreachable.
C8_NoException ==
    (pc = "returned" /\ call.op = "enhanced") =>
        /\ ~call.raised
        /\ StoreUnreachable => call.result = <<>>

\* the index query and the candidate query both failed in one call of a
\* non-empty query
C8_Witness ==
    /\ pc = "returned" /\ call.op = "enhanced"
    /\ call.path = "native-failed"
    /\ call.env.indexFail /\ call.env.storeFail
    /\ ~call.raised /\ call.result = <<>>

\* C9: when the query of the native index raises, the call returns the list
\* _search_hybrid returns for the same query, limit, threshold and
\* source_types, and no exception reaches the caller.
C9_NativeFailureIsHybrid ==
    (pc = "returned" /\ call.op = "enhanced" /\ call.path = "native-failed") =>
        /\ ~call.raised
        /\ call.result =
               _search_hybrid(call.query, call.limit,
                              IF call.threshold < 0 \/ call.threshold > 10
                              THEN 5 ELSE call.threshold,
                              call.source_types, call.env).value

\* the index query failed and hybrid search found two or more concepts
C9_Witness ==
    /\ pc = "returned" /\ call.op = "enhanced" /\ call.path = "native-failed"
    /\ has_vector_index /\ call.env.indexFail
    /\ Len(call.result) >= 2

\* C10: UnifiedAssistant.__init__ never raises; a failed load of the primary
\* model is followed by an attempt to load the backup model; when no model was
\* loaded, or sentence_transformers could not be imported, the assistant holds
\* a FallbackSearch and use_enhanced_search is False; use_enhanced_search is
\* True only with an EnhancedCourseSearch whose model is loaded.
C10_DegradedConstruction ==
    owner = "UnifiedAssistant" =>
        /\ ~init_raised
        /\ pc # "failed"
        /\ (load_log # <<>> /\ ~load_log[1].loaded) =>
               (Len(load_log) = 2 /\ load_log[2].name = "backup")
        /\ (\A i \in 1..Len(load_log) : ~load_log[i].loaded) =>
               (enhanced_search = "FallbackSearch" /\ ~use_enhanced_search)
        /\ use_enhanced_search =>
               (enhanced_search = "EnhancedCourseSearch" /\ model # "none")

\* both models failed to load and the assistant is in degraded mode
C10_Witness ==
    /\ owner = "UnifiedAssistant"
    /\ Len(load_log) = 2
    /\ ~load_log[1].loaded /\ ~load_log[2].loaded
    /\ enhanced_search = "FallbackSearch" /\ ~use_enhanced_search
    /\ pc = "ready"

\* C11: once the assistant was constructed without an encoder, every request
\* made through _enhanced_semantic_search is served by the text search:
\* FallbackSearch.semantic_search_with_ranking is invoked for it, and the
\* embedding pipeline is not.
C11_DegradedServedByFallback ==
    (pc = "returned" /\ call.op = "assistant"
        /\ enhanced_search = "FallbackSearch" /\ ~use_enhanced_search) =>
        /\ \E i \in 1..Len(call.invoked) :
               call.invoked[i] = "FallbackSearch.semantic_search_with_ranking"
        /\ \A i \in 1..Len(call.invoked) :
               call.invoked[i] # "EnhancedCourseSearch.semantic_search_with_ranking"

\* the whitespace-separated terms of a query that are longer than three
\* characters, lower-cased
LongTerms(query) ==
    {toLower(Split(query)[i]) : i \in {j \in 1..Len(Split(query)) : Len(Split(query)[j]) > 3}}

\* C12 as stated: for every non-empty query the text search returns only
\* concepts whose name or definition contains, case-insensitively, a term of
\* the query that is longer than three characters.
C12_Original ==
    (pc = "returned" /\ call.op = "fallback" /\ call.query # "") =>
        \A i \in 1..Len(call.result) :
            ConceptOf(call.result[i]).contains \cap LongTerms(call.query) # {}

\* C12 amended: for every query that has a term longer than three characters
\* among its first five terms the text search returns only concepts whose
\* name or definition contains, case-insensitively, one of those terms.
C12_Amended ==
    (pc = "returned" /\ call.op = "fallback"
        /\ \E j \in 1..Len(Split(call.query)) : j <= 5 /\ Len(Split(call.query)[j]) > 3) =>
        \A i \in 1..Len(call.result) :
            \E j \in 1..Len(Split(call.query)) :
                /\ j <= 5 /\ Len(Split(call.query)[j]) > 3
                /\ toLower(Split(call.query)[j]) \in ConceptOf(call.result[i]).contains

\* the text search answered a query of two long terms with some, not all, of
\* the stored concepts, one of them matched through a capitalised term
C12_Witness ==
    /\ pc = "returned" /\ call.op = "fallback"
    /\ call.query = Q3
    /\ call.result # <<>>
    /\ Len(call.result) < Len(store)
    /\ call.limit > Len(call.result)
    /\ \E i \in 1..Len(call.result) :
          ConceptOf(call.result[i]).contains \cap LongTerms(call.query) = {"feedback"}

\* a hybrid search that ran to its end: no index, a working engine
\* (max_workers is not 0), no source-type filter, and nothing failed
IsPlainHybridCall ==
    /\ pc = "returned" /\ call.op = "enhanced" /\ call.path = "hybrid"
    /\ driver /\ max_workers # 0
    /\ ~HasSourceTypes(call.source_types)
    /\ ~call.env.storeFail /\ call.env.bad = {}

\* C13: over a store of three concepts whose similarities to the query are
\* 0.9, 0.6, 0.3 and whose credibility weights are 1.0, 0.5, 1.0, hybrid search
\* with threshold 0.5 and limit 5 returns exactly the 0.9 concept with weighted
\* score 0.9 and then the 0.6 concept with weighted score 0.3.  In general a
\* concept whose similarity is at least the threshold is returned whatever its
\* weighted score, as long as the limit leaves room for it.
C13_Scenario ==
    IsPlainHybridCall =>
        /\ (/\ Len(store) = 3
            /\ \A i \in 1..3 : store[i].text
            /\ <<store[1].sim[call.query], store[2].sim[call.query], store[3].sim[call.query]>>
                   = <<9, 6, 3>>
            /\ <<coalesce(store[1].cred), coalesce(store[2].cred), coalesce(store[3].cred)>>
                   = <<10, 5, 10>>
            /\ call.threshold = 5 /\ call.limit = 5) =>
               /\ Len(call.result) = 2
               /\ call.result[1].title = store[1].title
               /\ call.result[1].weighted_score = 90
               /\ call.result[2].title = store[2].title
               /\ call.result[2].weighted_score = 30
        /\ LET t == IF call.threshold < 0 \/ call.threshold > 10 THEN 5 ELSE call.threshold
               passing == {i \in 1..Len(store) :
                              store[i].text /\ store[i].sim[call.query] >= t}
           IN  Cardinality(passing) <= call.limit =>
                   \A i \in passing :
                       \E k \in 1..Len(call.result) :
                           /\ call.result[k].title = store[i].title
                           /\ call.result[k].similarity = store[i].sim[call.query]

\* the scenario was run: the second of the two results has weighted score 0.3,
\* below the threshold 0.5
C13_Witness ==
    /\ IsPlainHybridCall
    /\ Len(store) = 3 /\ call.threshold = 5 /\ call.limit = 5
    /\ Len(call.result) = 2
    /\ call.result[1].similarity = 9 /\ call.result[1].weighted_score = 90
    /\ call.result[2].similarity = 6 /\ call.result[2].weighted_score = 30
    /\ \E i \in 1..3 : store[i].sim[call.query] = 3

\* the result of the call came from _search_hybrid
IsHybridResult ==
    pc = "returned" /\ call.op = "enhanced" /\ call.path \in {"hybrid", "native-failed"}

\* C19 as stated: no result returned by hybrid search has a weighted score
\* below the threshold.
C19_Original ==
    IsHybridResult =>
        \A i \in 1..Len(call.result) :
            call.result[i].weighted_score
                >= 10 * (IF call.threshold < 0 \/ call.threshold > 10 THEN 5 ELSE call.threshold)

\* C19 amended: hybrid search compares the threshold with the raw similarity,
\* so every result has a weighted score of at least threshold times its
\* credibility, which is below the threshold when the credibility is below 1.
C19_Amended ==
    IsHybridResult =>
        \A i \in 1..Len(call.result) :
            call.result[i].weighted_score
                >= call.result[i].credibility_score
                       * (IF call.threshold < 0 \/ call.threshold > 10 THEN 5 ELSE call.threshold)

\* the single-threaded loop returned a result whose weighted score is below
\* the threshold and left out a concept whose similarity is below it
C19_Witness ==
    /\ IsHybridResult /\ call.env.poolFail
    /\ call.threshold = 5
    /\ \E i \in 1..Len(call.result) : call.result[i].weighted_score < 50
    /\ \E j \in 1..Len(store) :
          /\ store[j].sim[call.query] < 5
          /\ \A i \in 1..Len(call.result) : call.result[i].title # store[j].title
    /\ Len(call.result) < call.limit

\* C20: with a non-empty source_types filter and nothing failing, the search
\* issues well-formed queries: when the store holds a concept of a listed
\* source type whose similarity is at least the threshold and limit >= 1, the
\* returned list is not empty and holds only results of listed source types,
\* and with a vector index the result comes from the index query itself.
C20_SourceTypeFilter ==
    (/\ pc = "returned" /\ call.op = "enhanced"
     /\ HasSourceTypes(call.source_types)
     /\ call.query # "" /\ call.limit >= 1
     /\ call.env = NoFailure /\ driver /\ max_workers # 0) =>
        LET t == IF call.threshold < 0 \/ call.threshold > 10 THEN 5 ELSE call.threshold
            listed(c) == \E k \in 1..Len(call.source_types.items) :
                             call.source_types.items[k] = c.source_type
        IN  /\ (\E j \in 1..Len(store) :
                   /\ listed(store[j]) /\ store[j].text /\ store[j].indexed
                   /\ store[j].sim[call.query] >= t /\ store[j].score[call.query] >= t)
                   => /\ call.result # <<>>
                      /\ \A i \in 1..Len(call.result) : listed(call.result[i])
            /\ has_vector_index => call.path = "native"

\* a hybrid search whose thread pool raised after the candidates were fetched
IsSequentialFallback ==
    /\ IsHybridResult
    /\ driver /\ ~call.env.storeFail /\ ~HasSourceTypes(call.source_types)
    /\ store # <<>>
    /\ max_workers # 0
    /\ (call.env.poolFail \/ max_workers < 0)

\* concept j of the store is scored by the call and passes its threshold
Qualifies(j) ==
    /\ store[j].text
    /\ store[j].title \notin call.env.bad
    /\ store[j].sim[call.query]
           >= (IF call.threshold < 0 \/ call.threshold > 10 THEN 5 ELSE call.threshold)

\* C21: when the thread pool of hybrid search raises, the search does not
\* fail: it returns a ranked list that holds every candidate at most once,
\* only candidates that qualify, and all of them when the limit leaves room.
C21_SequentialFallback ==
    IsSequentialFallback =>
        /\ ~call.raised
        /\ \A i, k \in 1..Len(call.result) :
               call.result[i].title = call.result[k].title => i = k
        /\ \A i \in 1..Len(call.result) :
               \E j \in 1..Len(store) :
                   Qualifies(j) /\ store[j].title = call.result[i].title
        /\ \A i \in 1..(Len(call.result) - 1) :
               call.result[i].weighted_score >= call.result[i+1].weighted_score
        /\ Cardinality({j \in 1..Len(store) : Qualifies(j)}) <= call.limit =>
               \A j \in {m \in 1..Len(store) : Qualifies(m)} :
                   \E i \in 1..Len(call.result) : call.result[i].title = store[j].title

\* the pool raised and the sequential loop returned three or more results
C21_Witness ==
    /\ IsSequentialFallback /\ call.env.poolFail /\ max_workers = 1
    /\ Len(call.result) >= 3
    /\ Len(call.result) = Cardinality({j \in 1..Len(store) : Qualifies(j)})

\* a hybrid search that fetched its candidates and went on to score them
IsScoringHybrid ==
    /\ IsHybridResult
    /\ driver /\ ~call.env.storeFail /\ ~HasSourceTypes(call.source_types)
    /\ max_workers # 0

\* C22: in hybrid search a candidate that cannot be encoded or scored is the
\* only one lost: every other fetched candidate whose similarity reaches the
\* threshold is in the results when the limit leaves room, in the batched
\* path as in the sequential path.
C22_FailureIsolated ==
    (IsScoringHybrid /\ call.env.bad # {}) =>
        (Cardinality({j \in 1..Len(store) : Qualifies(j)}) <= call.limit =>
            \A j \in {m \in 1..Len(store) : Qualifies(m)} :
                \E i \in 1..Len(call.result) : call.result[i].title = store[j].title)

\* C23: a failed index query falls back to hybrid search for that call only:
\* the call leaves has_vector_index as it was, a call that gets as far as
\* searching tries the index exactly when has_vector_index is true, and
\* hybrid search is entered only when has_vector_index is false or the index
\* query of the same call has failed.
C23_OneShotFallback ==
    [][(pc = "ready" /\ pc' = "returned" /\ call'.op = "enhanced") =>
           /\ has_vector_index' = has_vector_index
           /\ call'.path \in {"native", "native-failed"} <=>
                  (has_vector_index /\ call'.path \notin {"invalid", "error"})
           /\ call'.path = "hybrid" <=>
                  (~has_vector_index /\ call'.path \notin {"invalid", "error"})
           /\ call'.path = "native" => ~call'.env.indexFail]_vars

\* the index query of a call has failed and the engine still has its index
C23_Witness ==
    /\ pc = "returned" /\ call.op = "enhanced"
    /\ call.path = "native-failed" /\ call.env.indexFail
    /\ has_vector_index
    /\ call.result # <<>>

\* a search answered by the vector index
IsNativeResult == pc = "returned" /\ call.op = "enhanced" /\ call.path = "native"

\* the nodes the index yields for k = min(limit * 3, 100) that pass the threshold
PassingOfTopK ==
    SelectSeq(QueryNodes(call.query, Min(call.limit * 3, 100)),
              LAMBDA c : c.score[call.query]
                  >= (IF call.threshold < 0 \/ call.threshold > 10 THEN 5 ELSE call.threshold))

StorePosition(title) == CHOOSE j \in 1..Len(store) : store[j].title = title

\* C26: in hybrid search results of equal weighted_score come back in the
\* order in which the store returned their concepts.
C26_StableTies ==
    IsHybridResult =>
        \A i, k \in 1..Len(call.result) :
            (i < k /\ call.result[i].weighted_score = call.result[k].weighted_score) =>
                StorePosition(call.result[i].title) < StorePosition(call.result[k].title)

\* a hybrid search returned two of three concepts of equal weighted score
C26_Witness ==
    /\ IsHybridResult /\ call.path = "hybrid"
    /\ call.limit = 2 /\ Len(call.result) = 2
    /\ call.result[1].weighted_score = call.result[2].weighted_score
    /\ call.result[1].similarity # call.result[2].similarity
    /\ Cardinality({j \in 1..Len(store) :
                       Qualifies(j) /\ store[j].sim[call.query] * coalesce(store[j].cred)
                                           = call.result[1].weighted_score}) = 3

\* C30: semantic_search_with_ranking answers a threshold outside [0, 1] with
\* the list it returns for threshold 0.5, whatever the query, the limit and
\* the source types; an empty or non-string query returns the empty list
\* whatever the state of the encoder and of the store.
C30_Validation ==
    (pc = "returned" /\ call.op = "enhanced") =>
        /\ (call.threshold < 0 \/ call.threshold > 10) =>
               /\ ~call.raised
               /\ call.result = semantic_search_with_ranking(
                                    call.query, call.limit, 5, call.source_types,
                                    call.env).value
        /\ (call.query = "" \/ call.query = NonStringQuery) =>
               /\ ~call.raised
               /\ call.result = <<>>
               /\ call.path = "invalid"

\* a search with threshold -1 returned some of the candidates and left out
\* one whose similarity is below 0.5
C30_Witness ==
    /\ pc = "returned" /\ call.op = "enhanced" /\ call.path = "hybrid"
    /\ call.threshold = -1
    /\ call.result # <<>>
    /\ \E j \in 1..Len(store) :
           /\ store[j].text /\ store[j].sim[call.query] \in 0..4
           /\ \A i \in 1..Len(call.result) : call.result[i].title # store[j].title
    /\ Len(call.result) < call.limit

----------------------------------------------------------------------------
(* CachedSearch *)

MaxTime == 2

MaxTTL == 2

MaxCacheSize == 2

CacheQueries == {"", Q1, Q2, Q3}

CacheLimits == {2}

CacheThresholds == {5}

CacheSourceTypes == {NoSourceTypes}

StoreDown == [NoFailure EXCEPT !.indexFail = TRUE, !.storeFail = TRUE]

CacheEnvs == {NoFailure, StoreDown}

\* json.dumps(cache_dict, sort_keys=True): the pairs in the order of their names
JsonKeyOrder == <<"limit", "query", "source_types", "threshold">>

\* a serialization that keeps the pairs in the order they were passed
json_dumps_CallOrder(pairs) == pairs

json_dumps(pairs) ==
    [i \in 1..Len(JsonKeyOrder) |->
        CHOOSE p \in {pairs[j] : j \in 1..Len(pairs)} : p[1] = JsonKeyOrder[i]]

\* kwargs: the keyword arguments as <<name, value>> pairs in call order; the
\* md5 digest is taken to be one-to-one on the serialized text
_generate_cache_key(query, kwargs) == json_dumps(<<<<"query", query>>>> \o kwargs)

SearchParams(limit, threshold, source_types) ==
    << <<"limit", limit>>, <<"threshold", threshold>>, <<"source_types", source_types>> >>

\* position of the key in the dict, 0 when absent
CacheIndex(c, key) ==
    IF \E i \in 1..Len(c) : c[i].key = key
    THEN CHOOSE i \in 1..Len(c) : c[i].key = key
    ELSE 0

\* the comparison the wrong way round
is_expired_Inverted(entry, t, ttl) == t - entry.timestamp < ttl

\* CachedSearchResult.is_expired at time t
is_expired(entry, t, ttl) == t - entry.timestamp > ttl

\* an insertion that leaves the entry of an existing key as it is
CachePut_KeepOld(c, entry) ==
    IF CacheIndex(c, entry.key) = 0 THEN Append(c, entry) ELSE c

\* an insertion that does not keep an empty result list
CachePut_SkipEmpty(c, entry) ==
    IF entry.results = <<>> THEN c
    ELSE IF CacheIndex(c, entry.key) = 0
    THEN Append(c, entry)
    ELSE [c EXCEPT ![CacheIndex(c, entry.key)] = entry]

\* self.cache[cache_key] = CachedSearchResult(...): an existing key keeps its
\* place in the dict, a new key goes last
CachePut(c, entry) ==
    IF CacheIndex(c, entry.key) = 0
    THEN Append(c, entry)
    ELSE [c EXCEPT ![CacheIndex(c, entry.key)] = entry]

\* a cleanup that starts only at twice the maximum
_cleanup_cache_LateTrigger(c, max_size) ==
    IF Len(c) > 2 * max_size
    THEN LET cache_items == Items(SortDesc([i \in 1..Len(c) |->
                                              [key |-> c[i].timestamp, item |-> c[i]]]))
         IN  Slice(cache_items, FloorDiv(max_size, 2))
    ELSE c

\* a cleanup that keeps the entries with the oldest timestamps
_cleanup_cache_KeepOldest(c, max_size) ==
    IF Len(c) > max_size
    THEN LET cache_items == Items(SortDesc([i \in 1..Len(c) |->
                                              [key |-> 0 - c[i].timestamp, item |-> c[i]]]))
         IN  Slice(cache_items, FloorDiv(max_size, 2))
    ELSE c

\* a cleanup that always keeps at least the newest entry
_cleanup_cache_KeepAtLeastOne(c, max_size) ==
    IF Len(c) > max_size
    THEN LET cache_items == Items(SortDesc([i \in 1..Len(c) |->
                                              [key |-> c[i].timestamp, item |-> c[i]]]))
         IN  Slice(cache_items, Max(1, FloorDiv(max_size, 2)))
    ELSE c

_cleanup_cache_if_needed(c, max_size) ==
    IF Len(c) > max_size
    THEN LET cache_items == Items(SortDesc([i \in 1..Len(c) |->
                                              [key |-> c[i].timestamp, item |-> c[i]]]))
             keep_count == FloorDiv(max_size, 2)
         IN  Slice(cache_items, keep_count)
    ELSE c

\* a search that takes the cached path whatever use_cache says
BypassesCache_Never(use_cache) == FALSE

\* `if not use_cache`: the call goes straight to the engine
BypassesCache(use_cache) == ~use_cache

\* CachedSearch.search at time `now` (the clock does not advance during a
\* call).  Yields the returned outcome, the cache afterwards, the number of
\* engine calls made and, when one was stored, the new entry.
CachedSearch_search(query, limit, threshold, source_types, use_cache, env) ==
    LET engine == semantic_search_with_ranking(query, limit, threshold, source_types, env)
        cache_key == _generate_cache_key(query, SearchParams(limit, threshold, source_types))
        idx == CacheIndex(cache, cache_key)
    IN  IF query = ""
        THEN [out |-> Ok(<<>>), cache |-> cache, calls |-> 0, key |-> cache_key,
              how |-> "empty"]
        ELSE IF BypassesCache(use_cache)
        THEN [out |-> engine, cache |-> cache, calls |-> 1, key |-> cache_key,
              how |-> "bypass"]
        ELSE IF idx # 0 /\ ~is_expired(cache[idx], now, cache_ttl)
        THEN [out |-> Ok(cache[idx].results), cache |-> cache, calls |-> 0, key |-> cache_key,
              how |-> "hit"]
        ELSE IF engine.raised
        THEN [out |-> engine, cache |-> cache, calls |-> 1, key |-> cache_key,
              how |-> "raised"]
        ELSE LET entry == [key |-> cache_key, results |-> engine.value, timestamp |-> now]
             IN  [out |-> engine,
                  cache |-> _cleanup_cache_if_needed(CachePut(cache, entry), max_cache_size),
                  calls |-> 1, key |-> cache_key,
                  how |-> IF idx # 0 THEN "expired" ELSE "miss",
                  entry |-> entry]

\* the timestamps of the entries of `before` that are not in `after`
Dropped(before, after) ==
    LET gone == SelectSeq(before, LAMBDA e : \A j \in 1..Len(after) : after[j] # e)
    IN  [i \in 1..Len(gone) |-> gone[i].timestamp]

\* cached_search.search(query, limit, threshold, source_types, use_cache)
Search ==
    /\ pc = "ready"
    /\ \E query \in CacheQueries, limit \in CacheLimits, threshold \in CacheThresholds,
          source_types \in CacheSourceTypes, use_cache \in BOOLEAN,
          env \in CacheEnvs :
          \E r \in {CachedSearch_search(query, limit, threshold, source_types, use_cache, env)} :
              /\ cache' = r.cache
              /\ last' = [op |-> "search", key |-> r.key, use_cache |-> use_cache,
                          how |-> r.how, calls |-> r.calls,
                          evicted |-> IF r.how \in {"miss", "expired"}
                                      THEN Len(CachePut(cache, r.entry)) - Len(r.cache)
                                      ELSE 0,
                          dropped |-> IF r.how \in {"miss", "expired"}
                                      THEN Dropped(CachePut(cache, r.entry), r.cache)
                                      ELSE <<>>,
                          done |-> now, raised |-> r.out.raised, result |-> r.out.value,
                          stats |-> NoStats]
    /\ UNCHANGED <<cache_ttl, max_cache_size, now, call, threads>>
    /\ UNCHANGED engineVars

\* cached_search.clear_cache()
clear_cache ==
    /\ pc = "ready"
    /\ cache' = <<>>
    /\ last' = [op |-> "clear", key |-> <<>>, use_cache |-> FALSE, how |-> "none",
                calls |-> 0, evicted |-> Len(cache), dropped |-> <<>>,
                done |-> now, raised |-> FALSE, result |-> <<>>, stats |-> NoStats]
    /\ UNCHANGED <<cache_ttl, max_cache_size, now, call, threads>>
    /\ UNCHANGED engineVars

\* the minimum / maximum of a non-empty set of numbers
SetMin(S) == CHOOSE x \in S : \A y \in S : x <= y

SetMax(S) == CHOOSE x \in S : \A y \in S : x >= y

\* statistics that count an entry whose age equals the TTL as expired
CacheStats_StrictExpiry(c, t, ttl) ==
    LET valid_count == Cardinality({i \in 1..Len(c) : t - c[i].timestamp < ttl})
    IN  [total_entries |-> Len(c),
         valid_entries |-> valid_count,
         expired_entries |-> Len(c) - valid_count,
         oldest_entry_age |-> 0,
         newest_entry_age |-> 0]

\* the dict get_cache_stats returns at time t (cache_ttl and max_cache_size are
\* copied into it unchanged).  Time is counted from the construction of the
\* cache, so the epoch timestamp of an entry is never 0 and the `if
\* oldest_time` test holds whenever the cache has an entry.
CacheStats(c, t, ttl) ==
    LET valid_count == Cardinality({i \in 1..Len(c) : ~is_expired(c[i], t, ttl)})
        stamps == {c[i].timestamp : i \in 1..Len(c)}
    IN  [total_entries |-> Len(c),
         valid_entries |-> valid_count,
         expired_entries |-> Len(c) - valid_count,
         oldest_entry_age |-> IF c # <<>> THEN t - SetMin(stamps) ELSE 0,
         newest_entry_age |-> IF c # <<>> THEN t - SetMax(stamps) ELSE 0]

\* cached_search.get_cache_stats()
get_cache_stats ==
    /\ pc = "ready"
    /\ last' = [op |-> "stats", key |-> <<>>, use_cache |-> FALSE, how |-> "none",
                calls |-> 0, evicted |-> 0, dropped |-> <<>>,
                done |-> now, raised |-> FALSE, result |-> <<>>,
                stats |-> CacheStats(cache, now, cache_ttl)]
    /\ UNCHANGED <<cache, cache_ttl, max_cache_size, now, call, threads>>
    /\ UNCHANGED engineVars

\* a second passes
Tick ==
    /\ now < MaxTime
    /\ now' = now + 1
    /\ UNCHANGED <<cache, cache_ttl, max_cache_size, last, call, threads>>
    /\ UNCHANGED engineVars

\* CachedSearch(search_engine, cache_ttl, max_cache_size) over a constructed
\* EnhancedCourseSearch
Init ==
    /\ pc = "ready"
    /\ enhanced_search = "EnhancedCourseSearch"
    /\ use_enhanced_search = FALSE
    /\ model = "primary"
    /\ driver = TRUE
    /\ has_vector_index = FALSE
    /\ max_workers = 1
    /\ load_log = <<[name |-> "primary", loaded |-> TRUE]>>
    /\ owner = "EnhancedCourseSearch"
    /\ init_raised = FALSE
    /\ store = StoreA
    /\ call = NoCall
    /\ cache = <<>>
    /\ cache_ttl \in 1..MaxTTL
    /\ max_cache_size \in 0..MaxCacheSize
    /\ now = 0
    /\ last = NoLast
    /\ threads = NoThreads

Next ==
    \/ Search
    \/ clear_cache
    \/ get_cache_stats
    \/ Tick

Spec == Init /\ [][Next]_vars

----------------------------------------------------------------------------
(* EnhancedCourseSearch.cosine_similarity on its own *)

\* an element of a Python list: a number, or something else (a string, None)
Num(n) == [numeric |-> TRUE, n |-> n]

NonNumeric == [numeric |-> FALSE, n |-> 0]

\* an argument of cosine_similarity. type: "list", "str", or "other" for
\* any other Python value; for a str, parses tells whether json.loads accepts
\* it and islist whether the value it yields is a list; elems: the elements of
\* the list (of the list the str deserializes to)
ListValue(elems) == [type |-> "list", parses |-> FALSE, islist |-> TRUE, elems |-> elems]

StrValue(parses, islist, elems) ==
    [type |-> "str", parses |-> parses, islist |-> islist, elems |-> elems]

OtherValue == [type |-> "other", parses |-> FALSE, islist |-> FALSE, elems |-> <<>>]

Vectors ==
    {ListValue(<<>>),
     ListValue(<<Num(0), Num(0)>>),
     ListValue(<<Num(1), Num(0)>>),
     ListValue(<<Num(0), Num(1)>>),
     ListValue(<<Num(1), Num(2)>>),
     ListValue(<<Num(-1), Num(0)>>),
     ListValue(<<Num(1), Num(0), Num(2)>>),
     ListValue(<<Num(1), NonNumeric>>),
     StrValue(TRUE, TRUE, <<Num(1), Num(2)>>),
     StrValue(TRUE, TRUE, <<NonNumeric, NonNumeric>>),
     StrValue(TRUE, FALSE, <<>>),
     StrValue(FALSE, FALSE, <<>>),
     OtherValue}

\* json.loads(s)
json_loads(s) ==
    IF ~s.parses THEN Raise
    ELSE Ok(IF s.islist THEN ListValue(s.elems) ELSE OtherValue)

RECURSIVE Dot(_, _, _)
\* the sum of the products of the first n elements
Dot(a, b, n) == IF n = 0 THEN 0 ELSE a[n].n * b[n].n + Dot(a, b, n - 1)

\* a quotient dot / sqrt(den2), kept exact; 0.0 is Zero
Zero == [num |-> 0, den2 |-> 1]

Quotient(dot, den2) == IF dot = 0 THEN Zero ELSE [num |-> dot, den2 |-> den2]

\* np.dot and np.linalg.norm raise on an array that holds a non-number
NumpyRaises(a, b) ==
    \/ \E i \in 1..Len(a) : ~a[i].numeric
    \/ \E i \in 1..Len(b) : ~b[i].numeric

cosine_similarity(vec1, vec2) ==
    LET l1 == IF vec1.type = "str" THEN json_loads(vec1) ELSE Ok(vec1)
        l2 == IF vec2.type = "str" THEN json_loads(vec2) ELSE Ok(vec2)
    IN  IF l1.raised THEN Ok(Zero)                           \* except: return 0.0
        ELSE IF l2.raised THEN Ok(Zero)
        ELSE IF l1.value.type # "list" \/ l2.value.type # "list" THEN Ok(Zero)
        ELSE IF Len(l1.value.elems) # Len(l2.value.elems) THEN Ok(Zero)
        ELSE LET a == l1.value.elems
                 b == l2.value.elems
             IN  IF NumpyRaises(a, b) THEN Raise
                 ELSE IF Dot(a, a, Len(a)) = 0 \/ Dot(b, b, Len(b)) = 0 THEN Ok(Zero)
                 ELSE Ok(Quotient(Dot(a, b, Len(a)),
                                  Dot(a, a, Len(a)) * Dot(b, b, Len(b))))

\* self.cosine_similarity(vec1, vec2) for the arguments held in `call`
CosineSimilarity ==
    /\ pc = "ready"
    /\ \E out \in {cosine_similarity(call.vec1, call.vec2)} :
           last' = [op |-> "cosine", vec1 |-> call.vec1, vec2 |-> call.vec2,
                    raised |-> out.raised, value |-> out.value]
    /\ pc' = "returned"
    /\ UNCHANGED <<enhanced_search, use_enhanced_search, model, driver,
                   has_vector_index, max_workers, load_log, owner, init_raised, store>>
    /\ UNCHANGED <<call, cache, cache_ttl, max_cache_size, now, threads>>

InitCosine ==
    /\ pc = "ready"
    /\ enhanced_search = "EnhancedCourseSearch"
    /\ use_enhanced_search = FALSE
    /\ model = "primary"
    /\ driver = TRUE
    /\ has_vector_index = FALSE
    /\ max_workers = 1
    /\ load_log = <<[name |-> "primary", loaded |-> TRUE]>>
    /\ owner = "EnhancedCourseSearch"
    /\ init_raised = FALSE
    /\ store = StoreA
    /\ call \in [op : {"args"}, vec1 : Vectors, vec2 : Vectors]
    /\ cache = <<>>
    /\ cache_ttl = 1
    /\ max_cache_size = 1
    /\ now = 0
    /\ last = NoLast
    /\ threads = NoThreads

NextCosine == CosineSimilarity

SpecCosine == InitCosine /\ [][NextCosine]_vars

\* the list an argument stands for once deserialized, if it is one
IsListArg(v) == v.type = "list" \/ (v.type = "str" /\ v.parses /\ v.islist)

\* the arguments are malformed in one of the ways the function must absorb
MalformedArgs(vec1, vec2) ==
    \/ vec1.type = "str" /\ ~vec1.parses
    \/ vec2.type = "str" /\ ~vec2.parses
    \/ ~IsListArg(vec1) \/ ~IsListArg(vec2)
    \/ Len(vec1.elems) # Len(vec2.elems)
    \/ NumpyRaises(vec1.elems, vec2.elems)
    \/ \A i \in 1..Len(vec1.elems) : vec1.elems[i].n = 0
    \/ \A i \in 1..Len(vec2.elems) : vec2.elems[i].n = 0

\* C25: cosine_similarity never raises: it returns 0.0 for vectors of
\* different lengths, for a zero norm, for a string that fails to
\* deserialize, for a deserialized value that is not a list and for a list
\* with non-numeric elements.
C25_NeverRaises ==
    last.op = "cosine" =>
        /\ ~last.raised
        /\ MalformedArgs(last.vec1, last.vec2) => last.value = Zero

----------------------------------------------------------------------------
(* The partition of the candidates in EnhancedCourseSearch._search_hybrid *)

\* which candidates have a non-empty text: all of them, every second one,
\* all but every third one
TextPatterns == {"all", "odd", "gaps"}

HasText(pattern, i) ==
    IF pattern = "all" THEN TRUE
    ELSE IF pattern = "odd" THEN i % 2 = 1
    ELSE i % 3 # 0

\* a store of n concepts titled 1..n, each as similar to every query as can be
CandidateStore(n, pattern) ==
    [i \in 1..n |-> Concept(i, {}, HasText(pattern, i), "official", <<10>>,
                            <<10, 10, 10>>, <<10, 10, 10>>, FALSE)]

\* the max_workers argument given to the constructor
PartitionWorkers == {1, 2, 4}

\* the thread pool raises while the batches run
PoolDown == [NoFailure EXCEPT !.poolFail = TRUE]

Titles(records) == [i \in 1..Len(records) |-> records[i].title]

\* _search_hybrid over the whole store, with the batches and sub-batches it
\* forms on the way
HybridPartition ==
    /\ pc = "ready"
    /\ \E env \in {NoFailure, PoolDown} :
         \E out \in {_search_hybrid(Q1, max_records, 5, NoSourceTypes, env)} :
           LET batches == Batches(AllRecords(NoSourceTypes))
           IN  last' = [op |-> "hybrid", env |-> env,
                        batches |-> [b \in 1..Len(batches) |-> Titles(batches[b])],
                        subs |-> Concat([b \in 1..Len(batches) |->
                                    LET s == SubBatches(batches[b])
                                    IN  [k \in 1..Len(s) |-> Titles(s[k])]]),
                        raised |-> out.raised, result |-> Titles(out.value)]
    /\ pc' = "returned"
    /\ UNCHANGED <<enhanced_search, use_enhanced_search, model, driver,
                   has_vector_index, max_workers, load_log, owner, init_raised, store>>
    /\ UNCHANGED <<call, cache, cache_ttl, max_cache_size, now, threads>>

InitPartition ==
    /\ pc = "ready"
    /\ enhanced_search = "EnhancedCourseSearch"
    /\ use_enhanced_search = FALSE
    /\ model = "primary"
    /\ driver = TRUE
    /\ has_vector_index = FALSE
    /\ \E workers_arg \in PartitionWorkers :
           /\ call = [op |-> "args", workers_arg |-> workers_arg]
           /\ max_workers = EnhancedCourseSearch_init(workers_arg, TRUE, TRUE, "ok",
                                                      TRUE, FALSE).max_workers
    /\ load_log = <<[name |-> "primary", loaded |-> TRUE]>>
    /\ owner = "EnhancedCourseSearch"
    /\ init_raised = FALSE
    /\ \E n \in 1..max_records, pattern \in TextPatterns :
           store = CandidateStore(n, pattern)
    /\ cache = <<>>
    /\ cache_ttl = 1
    /\ max_cache_size = 1
    /\ now = 0
    /\ last = NoLast
    /\ threads = NoThreads

NextPartition == HybridPartition

SpecPartition == InitPartition /\ [][NextPartition]_vars

\* C29: for 1 to 100 candidates and every max_workers >= 1 given to the
\* constructor, the batches of hybrid search hold every candidate exactly
\* once, the sub-batches of _process_batch hold every candidate with text
\* exactly once and have at most 5 texts each, and the result list holds
\* every candidate with text exactly once and no other.
C29_ExactPartition ==
    (last.op = "hybrid" /\ call.workers_arg >= 1) =>
        LET texts == SelectSeq(Titles(store), LAMBDA i : store[i].text)
        IN  /\ ~last.raised
            /\ Concat(last.batches) = Titles(store)
            /\ \A b \in 1..Len(last.batches) : last.batches[b] # <<>>
            /\ Concat(last.subs) = texts
            /\ \A k \in 1..Len(last.subs) : Len(last.subs[k]) \in 1..max_batch_size
            /\ Len(last.result) = Len(texts)
            /\ \A i \in 1..Len(store) :
                   Cardinality({k \in 1..Len(last.result) : last.result[k] = i})
                       = (IF store[i].text THEN 1 ELSE 0)

\* a hundred candidates, all with text, went through twenty sub-batches
C29_Witness ==
    /\ last.op = "hybrid" /\ call.workers_arg = 4 /\ last.env = NoFailure
    /\ Len(store) = max_records
    /\ Len(last.subs) = 20
    /\ Len(last.result) = max_records

----------------------------------------------------------------------------
(* CachedSearch._generate_cache_key on its own *)

KeyQueries == {Q1, Q2}

KeyLimits == {1, 2}

KeyThresholds == {5, 8}

KeySourceTypes ==
    {NoSourceTypes, SourceTypes(<<>>), SourceTypes(<<"official", "teacher">>)}

\* the orders in which three keyword arguments can be passed
KwargOrders == {p \in [1..3 -> 1..3] : \A i, j \in 1..3 : p[i] = p[j] => i = j}

\* self._generate_cache_key(query, **kwargs); the state keeps this call in
\* `last` and the call before it in `call`
GenerateCacheKey ==
    /\ pc = "ready"
    /\ \E query \in KeyQueries, limit \in KeyLimits, threshold \in KeyThresholds,
          source_types \in KeySourceTypes, order \in KwargOrders :
          LET params == SearchParams(limit, threshold, source_types)
              kwargs == [i \in 1..3 |-> params[order[i]]]
          IN  /\ last' = [op |-> "key", query |-> query, kwargs |-> kwargs,
                          key |-> _generate_cache_key(query, kwargs)]
              /\ call' = last
    /\ UNCHANGED <<cache, cache_ttl, max_cache_size, now, threads>>
    /\ UNCHANGED engineVars

InitKey ==
    /\ pc = "ready"
    /\ enhanced_search = "EnhancedCourseSearch"
    /\ use_enhanced_search = FALSE
    /\ model = "primary"
    /\ driver = TRUE
    /\ has_vector_index = FALSE
    /\ max_workers = 1
    /\ load_log = <<[name |-> "primary", loaded |-> TRUE]>>
    /\ owner = "EnhancedCourseSearch"
    /\ init_raised = FALSE
    /\ store = StoreA
    /\ call = NoCall
    /\ cache = <<>>
    /\ cache_ttl = 1
    /\ max_cache_size = 1
    /\ now = 0
    /\ last = NoLast
    /\ threads = NoThreads

NextKey == GenerateCacheKey

SpecKey == InitKey /\ [][NextKey]_vars

\* C14: two calls of _generate_cache_key yield the same key exactly when they
\* were given the same query and the same set of (name, value) pairs, whatever
\* the order of the keyword arguments; calls that differ in the query, the
\* limit, the threshold or the source types yield different keys.
C14_KeyOfPairSet ==
    (call.op = "key" /\ last.op = "key") =>
        (last.key = call.key <=>
            /\ last.query = call.query
            /\ {last.kwargs[i] : i \in 1..Len(last.kwargs)}
                   = {call.kwargs[i] : i \in 1..Len(call.kwargs)})

\* two calls passed the same values in different keyword order and got one key
C14_Witness ==
    /\ call.op = "key" /\ last.op = "key"
    /\ last.kwargs # call.kwargs
    /\ last.kwargs[1][1] = "source_types" /\ call.kwargs[1][1] = "limit"
    /\ {last.kwargs[i] : i \in 1..Len(last.kwargs)}
           = {call.kwargs[i] : i \in 1..Len(call.kwargs)}
    /\ last.query = call.query
    /\ last.key = call.key

----------------------------------------------------------------------------
(* Properties of CachedSearch *)

\* the query a cache key was made from
KeyQuery(key) == key[2][2]

\* this step is a call of CachedSearch.search
IsSearchCall == now' = now /\ last'.op = "search"

\* C1 as stated: once a call with use_cache=True has completed, a call with the
\* same parameters and use_cache=True made fewer than cache_ttl seconds later
\* returns the same list and does not invoke the engine.
C1_Original ==
    [][(/\ last.op = "search" /\ last.use_cache
        /\ IsSearchCall /\ last'.use_cache
        /\ last'.key = last.key
        /\ now - last.done < cache_ttl)
       => (last'.result = last.result /\ last'.calls = 0)]_vars

\* C1 amended: a call with use_cache=True whose parameters have an entry in
\* the cache that was inserted fewer than cache_ttl seconds ago returns the
\* list of that entry and does not invoke the engine.
C1_Amended ==
    [][\A i \in 1..Len(cache) :
          (/\ IsSearchCall /\ last'.use_cache
           /\ last'.key = cache[i].key
           /\ now - cache[i].timestamp < cache_ttl)
          => (last'.result = cache[i].results /\ last'.calls = 0)]_vars

\* a call was served, without an engine call, from an entry inserted at an
\* earlier time
C1_Witness ==
    /\ last.op = "search" /\ last.use_cache /\ last.how = "hit"
    /\ last.calls = 0
    /\ last.done = now
    /\ \E i \in 1..Len(cache) :
          /\ cache[i].key = last.key
          /\ cache[i].timestamp < now
          /\ cache[i].results = last.result
          /\ last.result # <<>>

C3_Bounded == Len(cache) <= max_cache_size /\ ~last.raised

\* the third entry was inserted into a cache of max_cache_size 2 and the
\* cleanup left one entry
C3_Witness ==
    /\ max_cache_size = 2
    /\ last.op = "search" /\ last.how = "miss"
    /\ last.evicted = 2
    /\ Len(cache) = 1
    /\ ~last.raised

\* C4: a call with use_cache=False and a non-empty query calls the engine
\* exactly once and leaves the cache map, entries and timestamps, unchanged.
C4_Bypass ==
    [][(IsSearchCall /\ ~last'.use_cache /\ KeyQuery(last'.key) # "")
       => (last'.calls = 1 /\ cache' = cache)]_vars

\* a call with use_cache=False was made while a valid entry of its parameters
\* was in the cache, and it returned a list the entry does not hold
C4_Witness ==
    /\ last.op = "search" /\ ~last.use_cache /\ last.how = "bypass"
    /\ last.done = now
    /\ last.calls = 1
    /\ \E i \in 1..Len(cache) :
          /\ cache[i].key = last.key
          /\ now - cache[i].timestamp < cache_ttl
          /\ cache[i].results # last.result

\* C15: when an insertion makes the number of entries exceed max_cache_size,
\* the cleanup leaves floor(max_cache_size / 2) entries; every entry it leaves
\* was in the cache with the same results and timestamp, and its timestamp is
\* at least the timestamp of every entry removed.
C15_EvictionOrder ==
    [][LET new == [key |-> last'.key, results |-> last'.result, timestamp |-> now]
           before == {cache[i] : i \in {j \in 1..Len(cache) : cache[j].key # last'.key}}
                         \cup {new}
           after == {cache'[i] : i \in 1..Len(cache')}
       IN  (/\ IsSearchCall /\ last'.how \in {"miss", "expired"}
            /\ Cardinality(before) > max_cache_size)
           => /\ Len(cache') = max_cache_size \div 2
              /\ Cardinality(after) = Len(cache')
              /\ after \subseteq before
              /\ \A s \in after : \A e \in before \ after : s.timestamp >= e.timestamp]_vars

\* the cleanup removed two entries, one of them older than the entry it left
C15_Witness ==
    /\ last.op = "search" /\ last.how \in {"miss", "expired"}
    /\ max_cache_size = 2
    /\ Len(last.dropped) = 2
    /\ Len(cache) = 1
    /\ \E i \in 1..2 : last.dropped[i] < cache[1].timestamp

\* this step is a call of get_cache_stats
IsStatsCall == now' = now /\ last'.op = "stats" /\ last'.done = now

\* a lookup of entry i of the cache, made now, would be served from the cache
WouldServe(i) ==
    LET key == cache[i].key
    IN  CachedSearch_search(key[2][2], key[1][2], key[4][2], key[3][2], TRUE, NoFailure).how = "hit"

C18_ExpiredAtTTL ==
    [][\A i \in 1..Len(cache) :
          (/\ IsSearchCall /\ last'.use_cache
           /\ last'.key = cache[i].key
           /\ now - cache[i].timestamp = cache_ttl)
          => (last'.calls = 1 /\ last'.how = "expired")]_vars

\* what the engine returns for the parameters of a key when nothing fails
HealthyResult(key) ==
    semantic_search_with_ranking(key[2][2], key[1][2], key[4][2], key[3][2], NoFailure).value

\* entry i of the cache is unexpired and holds the empty list of a failed
\* search: with the store reachable the engine finds results for its key
IsFailedEntry(i) ==
    /\ cache[i].results = <<>>
    /\ ~is_expired(cache[i], now, cache_ttl)
    /\ HealthyResult(cache[i].key) # <<>>

\* C27 as stated: the empty list of a failed engine search is not kept as a
\* valid entry: an identical call with use_cache=True within cache_ttl of the
\* failed one invokes the engine again.
C27_Original ==
    [][\A i \in 1..Len(cache) :
          (/\ IsSearchCall /\ last'.use_cache
           /\ last'.key = cache[i].key
           /\ IsFailedEntry(i))
          => last'.calls = 1]_vars

\* C27 amended: the empty list of a failed engine search is stored like any
\* other result, and while its entry is in the cache and not expired an
\* identical call with use_cache=True returns that empty list without
\* invoking the engine, whatever the state of the store by then.
C27_Amended ==
    [][/\ (/\ IsSearchCall /\ last'.how \in {"miss", "expired"}
           /\ last'.evicted = 0)
          => \E i \in 1..Len(cache') :
                 /\ cache'[i].key = last'.key
                 /\ cache'[i].results = last'.result
                 /\ cache'[i].timestamp = now
       /\ \A i \in 1..Len(cache) :
              (/\ IsSearchCall /\ last'.use_cache
               /\ last'.key = cache[i].key
               /\ IsFailedEntry(i))
              => /\ last'.how = "hit" /\ last'.calls = 0
                 /\ last'.result = <<>>
                 /\ cache' = cache]_vars

\* a call was served the empty list a failed search had left in the cache
C27_Witness ==
    /\ last.op = "search" /\ last.use_cache /\ last.how = "hit"
    /\ last.calls = 0 /\ last.result = <<>>
    /\ HealthyResult(last.key) # <<>>
    /\ \E i \in 1..Len(cache) : cache[i].key = last.key /\ IsFailedEntry(i)

\* this step is a call of CachedSearch.search that stored a new entry
IsInsertingCall == IsSearchCall /\ last'.how \in {"miss", "expired"}

\* the place the entry of this key takes in the dict when it is stored
PlaceOf(key) ==
    IF CacheIndex(cache, key) # 0 THEN CacheIndex(cache, key) ELSE Len(cache) + 1

\* the number of entries once the entry of this key is stored
SizeWith(key) == IF CacheIndex(cache, key) # 0 THEN Len(cache) ELSE Len(cache) + 1

\* C28 as stated: for every max_cache_size >= 1 the entry a search call has
\* inserted is still in the cache when the call returns.
C28_Original ==
    [][(IsInsertingCall /\ max_cache_size >= 1)
       => \E i \in 1..Len(cache') : cache'[i].key = last'.key]_vars

\* C28 amended: the entry a search call has inserted is in the cache when the
\* call returns exactly when its insertion does not lift the cache above
\* max_cache_size or fewer than max_cache_size // 2 entries that precede it
\* in the dict carry its timestamp; an immediately repeated identical call is
\* a hit exactly when the entry is there.
C28_Amended ==
    [][/\ IsInsertingCall =>
              ((\E i \in 1..Len(cache') :
                    cache'[i].key = last'.key /\ cache'[i].timestamp = now)
               <=> \/ SizeWith(last'.key) <= max_cache_size
                   \/ Cardinality({j \in 1..Len(cache) :
                                      /\ j < PlaceOf(last'.key)
                                      /\ cache[j].timestamp = now})
                          < FloorDiv(max_cache_size, 2))
       /\ (/\ IsSearchCall /\ last'.use_cache /\ last'.key = last.key
           /\ last.op = "search" /\ last.how \in {"miss", "expired"}
           /\ last.done = now)
          => (last'.how = "hit" <=> \E i \in 1..Len(cache) : cache[i].key = last.key)]_vars

\* with max_cache_size >= 1 a call has inserted an entry and its own cleanup
\* has removed it
C28_Witness ==
    /\ last.op = "search" /\ last.how \in {"miss", "expired"} /\ last.done = now
    /\ max_cache_size >= 1
    /\ last.evicted >= 1
    /\ \A i \in 1..Len(cache) : cache[i].key # last.key

----------------------------------------------------------------------------
(* CachedSearch.search called from two threads: the interpreter can switch   *)
(* threads between any two statements of the method, and the method takes no *)
(* lock                                                                      *)

\* a thread enters search(query, limit, threshold, None, use_cache=True) with a
\* non-empty query and computes its cache_key
T_Enter(t) ==
    /\ threads[t].pc = "idle"
    /\ \E query \in CacheQueries \ {""}, limit \in CacheLimits, threshold \in CacheThresholds,
          source_types \in CacheSourceTypes :
          threads' = [threads EXCEPT ![t] =
              [pc |-> "in", items |-> <<>>, raised |-> FALSE,
               key |-> _generate_cache_key(query, SearchParams(limit, threshold, source_types))]]
    /\ UNCHANGED <<cache, cache_ttl, max_cache_size, now, last, call>>
    /\ UNCHANGED engineVars

\* if cache_key in self.cache:
T_Contains(t) ==
    /\ threads[t].pc = "in"
    /\ threads' = [threads EXCEPT ![t].pc =
                      IF CacheIndex(cache, threads[t].key) # 0 THEN "get" ELSE "engine"]
    /\ UNCHANGED <<cache, cache_ttl, max_cache_size, now, last, call>>
    /\ UNCHANGED engineVars

\* cached_result = self.cache[cache_key]; if not cached_result.is_expired(...):
\* return cached_result.results.  The subscript raises KeyError when the key
\* is no longer in the dict self.cache names.
T_GetItem(t) ==
    /\ threads[t].pc = "get"
    /\ LET idx == CacheIndex(cache, threads[t].key)
       IN  threads' = [threads EXCEPT ![t] =
               IF idx = 0
               THEN [@ EXCEPT !.pc = "returned", !.raised = TRUE]
               ELSE IF ~is_expired(cache[idx], now, cache_ttl)
                    THEN [@ EXCEPT !.pc = "returned"]
                    ELSE [@ EXCEPT !.pc = "engine"]]
    /\ UNCHANGED <<cache, cache_ttl, max_cache_size, now, last, call>>
    /\ UNCHANGED engineVars

\* results = self.search_engine.semantic_search_with_ranking(...);
\* self.cache[cache_key] = CachedSearchResult(results, time.time(), query, params)
T_Store(t) ==
    /\ threads[t].pc = "engine"
    /\ LET key == threads[t].key
           results == semantic_search_with_ranking(key[2][2], key[1][2], key[4][2],
                                                   key[3][2], NoFailure)
       IN  cache' = CachePut(cache, [key |-> key, results |-> results.value, timestamp |-> now])
    /\ threads' = [threads EXCEPT ![t].pc = "len"]
    /\ UNCHANGED <<cache_ttl, max_cache_size, now, last, call>>
    /\ UNCHANGED engineVars

\* _cleanup_cache_if_needed: if len(self.cache) > self.max_cache_size:
T_LenCheck(t) ==
    /\ threads[t].pc = "len"
    /\ threads' = [threads EXCEPT ![t].pc =
                      IF Len(cache) > max_cache_size THEN "sorted" ELSE "returned"]
    /\ UNCHANGED <<cache, cache_ttl, max_cache_size, now, last, call>>
    /\ UNCHANGED engineVars

\* cache_items = sorted(self.cache.items(), key=timestamp, reverse=True)
T_Sorted(t) ==
    /\ threads[t].pc = "sorted"
    /\ threads' = [threads EXCEPT
                      ![t].pc = "assign",
                      ![t].items = Items(SortDesc([i \in 1..Len(cache) |->
                                       [key |-> cache[i].timestamp, item |-> cache[i]]]))]
    /\ UNCHANGED <<cache, cache_ttl, max_cache_size, now, last, call>>
    /\ UNCHANGED engineVars

\* keep_count = self.max_cache_size // 2;
\* self.cache = {k: v for k, v in cache_items[:keep_count]}
T_Assign(t) ==
    /\ threads[t].pc = "assign"
    /\ cache' = Slice(threads[t].items, FloorDiv(max_cache_size, 2))
    /\ threads' = [threads EXCEPT ![t].pc = "returned", ![t].items = <<>>]
    /\ UNCHANGED <<cache_ttl, max_cache_size, now, last, call>>
    /\ UNCHANGED engineVars

\* the call has returned (or raised) and the thread is free to call again
T_Return(t) ==
    /\ threads[t].pc = "returned"
    /\ threads' = [threads EXCEPT ![t] = IdleThread]
    /\ UNCHANGED <<cache, cache_ttl, max_cache_size, now, last, call>>
    /\ UNCHANGED engineVars

\* CachedSearch(search_engine, cache_ttl=1, max_cache_size=2) shared by the threads
InitThreads ==
    /\ pc = "ready"
    /\ enhanced_search = "EnhancedCourseSearch"
    /\ use_enhanced_search = FALSE
    /\ model = "primary"
    /\ driver = TRUE
    /\ has_vector_index = FALSE
    /\ max_workers = 1
    /\ load_log = <<[name |-> "primary", loaded |-> TRUE]>>
    /\ owner = "EnhancedCourseSearch"
    /\ init_raised = FALSE
    /\ store = StoreA
    /\ call = NoCall
    /\ cache = <<>>
    /\ cache_ttl = 1
    /\ max_cache_size = 2
    /\ now = 0
    /\ last = NoLast
    /\ threads = NoThreads

NextThreads ==
    \/ \E t \in Threads : T_Enter(t)
    \/ \E t \in Threads : T_Contains(t)
    \/ \E t \in Threads : T_GetItem(t)
    \/ \E t \in Threads : T_Store(t)
    \/ \E t \in Threads : T_LenCheck(t)
    \/ \E t \in Threads : T_Sorted(t)
    \/ \E t \in Threads : T_Assign(t)
    \/ \E t \in Threads : T_Return(t)
    \/ Tick

SpecThreads == InitThreads /\ [][NextThreads]_vars

\* C17: with concurrent callers the mutations of the cache map are
\* serialized: an eviction never discards an entry that is newer than an entry
\* it keeps, no call raises because the map changed under it, and the cache
\* holds at most max_cache_size entries once every call has returned.
C17_Serialized ==
    [][/\ \A t \in Threads :
              (threads[t].pc = "assign" /\ threads'[t].pc = "returned") =>
                  \A i \in 1..Len(cache) : \A j \in 1..Len(cache') :
                      (\A k \in 1..Len(cache') : cache'[k] # cache[i])
                          => cache'[j].timestamp >= cache[i].timestamp
       /\ \A t \in Threads : ~threads'[t].raised
       /\ (\A t \in Threads : threads'[t].pc \in {"idle", "returned"})
              => Len(cache') <= max_cache_size]_vars

====
